---- MODULE Spec2Model ----
(***************************************************************************)
(* Build pipeline of the critical-packages database (lib/index.js):        *)
(* paginated retrieval of the catalog, bulk upsert in one transaction,     *)
(* version enrichment in batches of CONCURRENCY concurrent lookups, one    *)
(* version transaction per batch, and the final build_info row.            *)
(*                                                                         *)
(* An action is one synchronous run of the code between two suspension     *)
(* points (a fetch or a sleep), or a sub-step of such a run.               *)
(*                                                                         *)
(* The store is the SQLite file the schema of createDatabase describes.    *)
(* REPLACE conflict resolution deletes every row that conflicts on the     *)
(* primary key or on a unique index and then inserts the new row.  The     *)
(* FOREIGN KEY clauses of the schema are enforced (better-sqlite3 builds   *)
(* SQLite with SQLITE_DEFAULT_FOREIGN_KEYS=1), and rows deleted by REPLACE *)
(* fire no delete trigger (recursive_triggers is off).                     *)
(***************************************************************************)
EXTENDS Integers, Sequences, FiniteSets, TLC

\* ---- bounds of the model ----
MaxPages == 2       \* pages the mocked source holds
MaxCatalog == 2     \* records the mocked source holds in all its pages
MaxLong == 12       \* records of the long catalog of the fan-out scenarios
MaxCalls == 3       \* upsertPackage calls of a store scenario
MaxRequests == 4    \* page requests followed against an endless source

\* ---- program constants ----
PER_PAGE == 1000
RATE_LIMIT_MS == 50
CONCURRENCY == 10

\* ---- values ----
\* SQL NULL / JS null of a text value
NULL == "NULL"

\* keywords_array is a JS array of words, or no array (null or absent)
NoArray == [isArray |-> FALSE]
Arr(items) == [isArray |-> TRUE, items |-> items]

\* a text built by Array.prototype.join(' '): the words in order; "" is Str(<<>>)
SqlNull == [isNull |-> TRUE]
Str(words) == [isNull |-> FALSE, words |-> words]

\* JSON.stringify of a structured value: the serialised text of that value
JSONStringify(v) == [json |-> v]

\* a test against null only
TruthyNonNull(v) == v # NULL

\* JS truthiness of a text value: null and "" are falsy
Truthy(v) == v # NULL /\ v # ""

Min(a, b) == IF a < b THEN a ELSE b

\* ---- ecosystemToRegistry ----
RegistryMap ==
  [npm |-> "npmjs.org", pypi |-> "pypi.org", rubygems |-> "rubygems.org",
   go |-> "proxy.golang.org", cargo |-> "crates.io", maven |-> "repo1.maven.org",
   nuget |-> "nuget.org", packagist |-> "packagist.org", hex |-> "hex.pm",
   pub |-> "pub.dev", hackage |-> "hackage.haskell.org",
   cocoapods |-> "cocoapods.org", conda |-> "anaconda.org",
   clojars |-> "clojars.org", puppet |-> "forge.puppet.com",
   homebrew |-> "formulae.brew.sh"]

\* String.prototype.toLowerCase on the ecosystem names of the model
ToLowerCase(s) ==
  CASE s = "NPM" -> "npm"
    [] s = "PyPI" -> "pypi"
    [] s = "Cargo" -> "cargo"
    [] s = "Constructor" -> "constructor"
    [] OTHER -> s

\* property names every object literal inherits from Object.prototype
\* (the all-lower-case ones; a lower-cased key can match no other)
ObjectPrototypeKeys == {"constructor", "__proto__"}

\* map[key] on the object literal `map`: an own property, else an inherited
\* one (a function or an object, both truthy), else undefined
NoRegistry == "null"
MapLookup(key) ==
  IF key \in DOMAIN RegistryMap THEN RegistryMap[key]
  ELSE IF key \in ObjectPrototypeKeys THEN "[inherited " \o key \o "]"
  ELSE NoRegistry

ecosystemToRegistry(ecosystem) == MapLookup(ToLowerCase(ecosystem))

\* ---- the store ----
\* the file before createDatabase has run on it: no schema, no rows
NoStore ==
  [schema |-> FALSE, packages |-> {}, versions |-> {}, advisories |-> {},
   advisory_seq |-> 0, repo_metadata |-> {}, packages_fts |-> {},
   build_info |-> {}]

\* a schema that seeds the build_info row at creation
EmptyStoreWithInfo ==
  [NoStore EXCEPT !.schema = TRUE,
                  !.build_info = {[id |-> 1, built_at |-> "now",
                                   package_count |-> 0, version_count |-> 0,
                                   advisory_count |-> 0]}]

\* createDatabase: five tables, the full-text table and its triggers, all empty
EmptyStore == [NoStore EXCEPT !.schema = TRUE]

Ok(d) == [ok |-> TRUE, db |-> d]
Fail(d) == [ok |-> FALSE, db |-> d]

\* a parent row whose child rows are never looked for
HasChildrenNever(d, id) == FALSE

\* FOREIGN KEY (package_id) REFERENCES packages(id): the child rows of an id
HasChildren(d, id) ==
  \/ \E v \in d.versions : v.package_id = id
  \/ \E a \in d.advisories : a.package_id = id
  \/ \E r \in d.repo_metadata : r.package_id = id

PackageRow(pkg) ==
  [id |-> pkg.id,
   ecosystem |-> pkg.ecosystem,
   name |-> pkg.name,
   purl |-> pkg.purl,
   namespace |-> pkg.namespace,
   description |-> pkg.description,
   homepage |-> pkg.homepage,
   repository_url |-> pkg.repository_url,
   licenses |-> pkg.licenses,
   normalized_licenses |-> JSONStringify(pkg.normalized_licenses),
   latest_version |-> pkg.latest_release_number,
   versions_count |-> pkg.versions_count,
   downloads |-> pkg.downloads,
   downloads_period |-> pkg.downloads_period,
   dependent_packages_count |-> pkg.dependent_packages_count,
   dependent_repos_count |-> pkg.dependent_repos_count,
   first_release_at |-> pkg.first_release_published_at,
   latest_release_at |-> pkg.latest_release_published_at,
   last_synced_at |-> pkg.last_synced_at,
   keywords |-> IF pkg.keywords_array.isArray
                THEN Str(pkg.keywords_array.items) ELSE SqlNull]

\* trigger packages_ai: the document the full-text table indexes for a row
FtsDoc(row) ==
  [rowid |-> row.id, ecosystem |-> row.ecosystem, name |-> row.name,
   description |-> row.description, keywords |-> row.keywords]

\* a REPLACE on a table without the unique index on (ecosystem, name)
PackageConflictsOnIdOnly(d, row) == {r \in d.packages : r.id = row.id}

\* the rows INSERT OR REPLACE deletes: same primary key, or same unique
\* (ecosystem, name)
PackageConflicts(d, row) ==
  {r \in d.packages :
     r.id = row.id \/ (r.ecosystem = row.ecosystem /\ r.name = row.name)}

\* an upsert that merges field by field: a null description keeps the stored one
insertPackageMerging(d, pkg) ==
  LET new == PackageRow(pkg)
      gone == PackageConflicts(d, new)
      old == {r \in gone : r.id = new.id}
      row == IF new.description = NULL /\ old # {}
               THEN [new EXCEPT !.description = (CHOOSE r \in old : TRUE).description]
               ELSE new
  IN Ok([d EXCEPT
           !.packages = (d.packages \ gone) \cup {row},
           !.packages_fts = d.packages_fts \cup {FtsDoc(row)}])

\* insertPackage: INSERT OR REPLACE INTO packages, then trigger packages_ai
insertPackage(d, pkg) ==
  LET row == PackageRow(pkg)
      gone == PackageConflicts(d, row)
  IN IF row.ecosystem = NULL \/ row.name = NULL
       THEN Fail(d)                      \* NOT NULL constraint
     ELSE IF \E r \in gone : r.id # row.id /\ HasChildren(d, r.id)
       THEN Fail(d)                      \* FOREIGN KEY constraint
     ELSE Ok([d EXCEPT
                !.packages = (d.packages \ gone) \cup {row},
                !.packages_fts = d.packages_fts \cup {FtsDoc(row)}])

\* a write that creates the row with nulls when there is no metadata
insertRepoMetadataNulls(d, packageId, repoMetadata, host) ==
  IF ~ \E p \in d.packages : p.id = packageId THEN Fail(d)
  ELSE
    LET row == [package_id |-> packageId,
                owner |-> IF repoMetadata.isNull THEN NULL ELSE repoMetadata.owner,
                repo_name |-> IF repoMetadata.isNull THEN NULL ELSE repoMetadata.name,
                full_name |-> IF repoMetadata.isNull THEN NULL
                              ELSE repoMetadata.full_name,
                host |-> IF host.isNull THEN NULL ELSE host.name,
                language |-> IF repoMetadata.isNull THEN NULL
                             ELSE repoMetadata.language,
                stargazers_count |-> IF repoMetadata.isNull THEN 0
                                     ELSE repoMetadata.stargazers_count,
                forks_count |-> IF repoMetadata.isNull THEN 0
                                ELSE repoMetadata.forks_count,
                open_issues_count |-> IF repoMetadata.isNull THEN 0
                                      ELSE repoMetadata.open_issues_count,
                archived |-> IF ~repoMetadata.isNull /\ repoMetadata.archived
                               THEN 1 ELSE 0,
                fork |-> IF ~repoMetadata.isNull /\ repoMetadata.fork
                           THEN 1 ELSE 0]
    IN Ok([d EXCEPT !.repo_metadata =
             {r \in d.repo_metadata : r.package_id # packageId} \cup {row}])

\* insertRepoMetadata: INSERT OR REPLACE INTO repo_metadata
insertRepoMetadata(d, packageId, repoMetadata, host) ==
  IF repoMetadata.isNull THEN Ok(d)
  ELSE IF ~ \E p \in d.packages : p.id = packageId THEN Fail(d)
  ELSE
    LET row == [package_id |-> packageId,
                owner |-> repoMetadata.owner,
                repo_name |-> repoMetadata.name,
                full_name |-> repoMetadata.full_name,
                host |-> IF host.isNull THEN NULL ELSE host.name,
                language |-> repoMetadata.language,
                stargazers_count |-> repoMetadata.stargazers_count,
                forks_count |-> repoMetadata.forks_count,
                open_issues_count |-> repoMetadata.open_issues_count,
                archived |-> IF repoMetadata.archived THEN 1 ELSE 0,
                fork |-> IF repoMetadata.fork THEN 1 ELSE 0]
    IN Ok([d EXCEPT !.repo_metadata =
             {r \in d.repo_metadata : r.package_id # packageId} \cup {row}])

\* an insert into a table without the unique index on (package_id, uuid)
insertAdvisoryAppending(d, packageId, advisory) ==
  IF ~ \E p \in d.packages : p.id = packageId THEN Fail(d)
  ELSE
    LET row == [id |-> d.advisory_seq + 1,
                package_id |-> packageId,
                uuid |-> advisory.uuid,
                url |-> advisory.url,
                title |-> advisory.title,
                description |-> advisory.description,
                severity |-> advisory.severity,
                published_at |-> advisory.published_at,
                cvss_score |-> advisory.cvss_score]
    IN Ok([d EXCEPT !.advisories = d.advisories \cup {row},
                    !.advisory_seq = d.advisory_seq + 1])

\* one stmt.run of insertAdvisories: INSERT OR REPLACE INTO advisories
insertAdvisory(d, packageId, advisory) ==
  IF ~ \E p \in d.packages : p.id = packageId THEN Fail(d)
  ELSE
    LET row == [id |-> d.advisory_seq + 1,
                package_id |-> packageId,
                uuid |-> advisory.uuid,
                url |-> advisory.url,
                title |-> advisory.title,
                description |-> advisory.description,
                severity |-> advisory.severity,
                published_at |-> advisory.published_at,
                cvss_score |-> advisory.cvss_score]
    IN Ok([d EXCEPT
             !.advisories =
                {a \in d.advisories :
                   ~(a.package_id = packageId /\ a.uuid = advisory.uuid)}
                \cup {row},
             !.advisory_seq = d.advisory_seq + 1])

\* insertAdvisories: the loop over the list; null entries and entries with a
\* falsy uuid are skipped; an absent or empty list returns at once
RECURSIVE insertAdvisoriesFrom(_, _, _)
insertAdvisoriesFrom(d, packageId, advisories) ==
  IF advisories = <<>> THEN Ok(d)
  ELSE LET advisory == Head(advisories) IN
       IF advisory.isNull \/ ~Truthy(advisory.uuid)
         THEN insertAdvisoriesFrom(d, packageId, Tail(advisories))
       ELSE LET r == insertAdvisory(d, packageId, advisory) IN
            IF r.ok THEN insertAdvisoriesFrom(r.db, packageId, Tail(advisories))
            ELSE r

insertAdvisories(d, packageId, advisories) ==
  IF ~advisories.isArray \/ advisories.items = <<>> THEN Ok(d)
  ELSE insertAdvisoriesFrom(d, packageId, advisories.items)

\* a table whose primary key is package_id alone: each insert replaces the row
\* of the package
insertVersionsOneRow(d, packageId, versionNumbers) ==
  IF versionNumbers = <<>> THEN Ok(d)
  ELSE IF ~ \E p \in d.packages : p.id = packageId THEN Fail(d)
  ELSE Ok([d EXCEPT !.versions =
             {v \in d.versions : v.package_id # packageId}
               \cup {[package_id |-> packageId,
                       number |-> versionNumbers[Len(versionNumbers)]]}])

\* insertVersions: INSERT OR REPLACE INTO versions, one row per list element
RECURSIVE insertVersionsFrom(_, _, _)
insertVersionsFrom(d, packageId, versionNumbers) ==
  IF versionNumbers = <<>> THEN Ok(d)
  ELSE IF ~ \E p \in d.packages : p.id = packageId THEN Fail(d)
  ELSE insertVersionsFrom(
         [d EXCEPT !.versions =
            d.versions \cup {[package_id |-> packageId,
                              number |-> Head(versionNumbers)]}],
         packageId, Tail(versionNumbers))

insertVersions(d, packageId, versionNumbers) ==
  insertVersionsFrom(d, packageId, versionNumbers)

\* a version count that counts the packages that have versions
updateBuildInfoDistinct(d) ==
  [d EXCEPT !.build_info =
     {[id |-> 1, built_at |-> "now",
       package_count |-> Cardinality(d.packages),
       version_count |-> Cardinality({v.package_id : v \in d.versions}),
       advisory_count |-> Cardinality(d.advisories)]}]

\* updateBuildInfo: INSERT OR REPLACE INTO build_info the row of id 1
updateBuildInfo(d) ==
  [d EXCEPT !.build_info =
     {[id |-> 1, built_at |-> "now",
       package_count |-> Cardinality(d.packages),
       version_count |-> Cardinality(d.versions),
       advisory_count |-> Cardinality(d.advisories)]}]

\* ---- bin.js --stats ----
\* `s.severity || 'unknown'`: the label of a severity group
SeverityLabel(severity) == IF Truthy(severity) THEN severity ELSE "unknown"

\* no report printed yet
NoStats == [ok |-> FALSE, printed |-> FALSE]

\* a report that takes its counts from the build_info row and fails without it
StatsFromBuildInfo(d) ==
  IF ~d.schema \/ d.build_info = {} THEN [ok |-> FALSE, printed |-> TRUE]
  ELSE
    LET info == CHOOSE b \in d.build_info : b.id = 1 IN
    [ok |-> TRUE, printed |-> TRUE,
     built |-> info.built_at,
     packages |-> info.package_count,
     versions |-> info.version_count,
     advisories |-> info.advisory_count,
     ecosystems |-> {},
     severities |-> {}]

\* the --stats branch on an existing file: the build_info row if any, three
\* COUNT queries, the two GROUP BY queries (their lines, as a set), the report;
\* a file without the tables makes the first prepare throw
Stats(d) ==
  IF ~d.schema THEN [ok |-> FALSE, printed |-> TRUE]
  ELSE
    [ok |-> TRUE, printed |-> TRUE,
     built |-> IF d.build_info = {} THEN "unknown"
               ELSE (CHOOSE b \in d.build_info : b.id = 1).built_at,
     packages |-> Cardinality(d.packages),
     versions |-> Cardinality(d.versions),
     advisories |-> Cardinality(d.advisories),
     ecosystems |->
       {[ecosystem |-> e,
         count |-> Cardinality({p \in d.packages : p.ecosystem = e})] :
          e \in {p.ecosystem : p \in d.packages}},
     severities |->
       {[severity |-> s, label |-> SeverityLabel(s),
         count |-> Cardinality({a \in d.advisories : a.severity = s})] :
          s \in {a.severity : a \in d.advisories}}]

\* no call made yet
NoOp == [op |-> "none"]

\* ---- the records of the mocked source ----
NoObject == [isNull |-> TRUE]

LodashRepo ==
  [isNull |-> FALSE, owner |-> "lodash", name |-> "lodash",
   full_name |-> "lodash/lodash", language |-> "JavaScript",
   stargazers_count |-> 61500, forks_count |-> 7000,
   open_issues_count |-> 100, archived |-> FALSE, fork |-> TRUE]

GitHub == [isNull |-> FALSE, name |-> "GitHub"]

Advisory(uuid, severity) ==
  [isNull |-> FALSE, uuid |-> uuid, url |-> "https://github.com/advisories",
   title |-> "ReDoS", description |-> NULL, severity |-> severity,
   published_at |-> "2022-01-06", cvss_score |-> 5]

BasePackage ==
  [id |-> 1, ecosystem |-> "npm", name |-> "lodash",
   purl |-> "pkg:npm/lodash", namespace |-> NULL,
   description |-> "Lodash modular utilities",
   homepage |-> "https://lodash.com/",
   repository_url |-> "https://github.com/lodash/lodash",
   licenses |-> "MIT", normalized_licenses |-> <<"MIT">>,
   latest_release_number |-> "4.17.21", versions_count |-> 114,
   downloads |-> 307500000, downloads_period |-> "last-month",
   dependent_packages_count |-> 159122, dependent_repos_count |-> 1900000,
   first_release_published_at |-> "2012-04-12",
   latest_release_published_at |-> "2021-02-20",
   last_synced_at |-> "2024-01-01",
   keywords_array |-> Arr(<<"utilities", "lodash">>),
   repo_metadata |-> LodashRepo, host |-> GitHub,
   advisories |-> Arr(<<Advisory("GHSA-1", "HIGH"), Advisory(NULL, "LOW"),
                        NoObject>>)]

\* the same package after an upstream change: same id, other columns
LodashChanged ==
  [BasePackage EXCEPT !.description = NULL, !.latest_release_number = "5.0.0",
                      !.keywords_array = Arr(<<>>), !.repo_metadata = NoObject,
                      !.host = NoObject, !.advisories = NoArray]

\* another id under the (ecosystem, name) of lodash
LodashReissued ==
  [BasePackage EXCEPT !.id = 2, !.description = "Reissued",
                      !.keywords_array = NoArray, !.repo_metadata = NoObject,
                      !.host = NoObject, !.advisories = Arr(<<>>)]

Requests ==
  [BasePackage EXCEPT !.id = 2, !.ecosystem = "PyPI", !.name = "requests",
                      !.purl = "pkg:pypi/requests",
                      !.description = "Python HTTP library",
                      !.keywords_array = Arr(<<"http">>),
                      !.repo_metadata = NoObject, !.host = NoObject,
                      !.advisories = Arr(<<Advisory("GHSA-2", "MODERATE")>>)]

\* an ecosystem outside the table
LeftPad ==
  [BasePackage EXCEPT !.id = 3, !.ecosystem = "swift", !.name = "left-pad",
                      !.purl = "pkg:swift/left-pad", !.description = NULL,
                      !.keywords_array = NoArray, !.repo_metadata = NoObject,
                      !.host = NoObject, !.advisories = NoArray]

\* an ecosystem outside the table whose lower-cased name is a property of
\* Object.prototype
Ctor ==
  [BasePackage EXCEPT !.id = 4, !.ecosystem = "Constructor", !.name = "ctor",
                      !.purl = "pkg:constructor/ctor", !.description = NULL,
                      !.keywords_array = NoArray, !.repo_metadata = NoObject,
                      !.host = NoObject, !.advisories = NoArray]

CatalogRecords ==
  {BasePackage, LodashChanged, LodashReissued, Requests, LeftPad, Ctor}

\* record k of the long catalog: distinct ids and names, all on npm
LongRecord(k) ==
  [BasePackage EXCEPT !.id = 100 + k, !.name = "pkg" \o ToString(k),
                      !.purl = "pkg:npm/pkg" \o ToString(k),
                      !.repo_metadata = NoObject, !.host = NoObject,
                      !.advisories = NoArray]

\* GET /registries/{registry}/packages/{name}/version_numbers of the mocked
\* source, when it answers with success
RemoteVersionNumbers(registry, name) ==
  CASE name = "lodash" -> <<"4.17.21", "4.17.20">>
    [] name = "requests" -> <<"2.31.0", "2.31.0">>
    [] name = "left-pad" -> <<>>
    [] OTHER -> <<name \o "@1.0.0">>

\* the registries the remote API knows; any other registry path is a 404
RemoteRegistries == {RegistryMap[k] : k \in DOMAIN RegistryMap}

\* ---- state ----
VARIABLES
  pc,                 \* position of build (and of the process that runs it)
  fetchVersionsData,  \* option of build
  source,             \* the pages GET /packages/critical serves, in order
  endless,            \* the source serves its last page again ever after
  failing,            \* positions of the catalog whose version lookup fails
  db,                 \* the store at dbPath
  packages,           \* fetchAllCriticalPackages: the records collected
  page,               \* fetchAllCriticalPackages: the page number
  fetchLog,           \* requests, responses and sleeps of the pagination
  progress,           \* the messages handed to onProgress, in order
  i,                  \* build: index of the batch loop
  completed,          \* build: packages whose versions were fetched
  task,               \* per catalog position: state of its processPackage
  results,            \* per catalog position: the versions of its result
  lookups,            \* per catalog position: version requests issued
  lookupFailed,       \* catalog positions whose lookup threw inside fetchJson
  error,              \* what rejected build
  exitCode,           \* bin.js: process.exit code, -1 while running
  calls,              \* store scenario: upsert calls made
  lastCall,           \* store scenario: the record of the last call
  lastWritten,        \* store scenario: per id, the last record written
  lastOp,             \* store scenario: the operation of the last call
  stats               \* bin.js --stats: the report of the last run

vars ==
  <<pc, fetchVersionsData, source, endless,
    failing, db, packages, page, fetchLog,
    progress, i, completed, task, results, lookups, lookupFailed, error,
    exitCode, calls, lastCall, lastWritten, lastOp, stats>>

buildVars ==
  <<pc, fetchVersionsData, source, endless,
    failing, db, packages, page, fetchLog,
    progress, i, completed, task, results, lookups, lookupFailed, error,
    exitCode>>

storeVars == <<calls, lastCall, lastWritten, lastOp, stats>>

\* ---- the mocked source ----
\* The sources: at most MaxPages pages holding at most MaxCatalog records in
\* all.  A page may be empty; past its last page a source serves empty pages.
PageSet(n) ==
  UNION {[1..len -> CatalogRecords] : len \in 0..n}

RECURSIVE SourcesOf(_, _)
SourcesOf(pagesLeft, recordsLeft) ==
  IF pagesLeft = 0 THEN {<<>>}
  ELSE {<<>>} \cup
       UNION {{<<pg>> \o rest :
                 rest \in SourcesOf(pagesLeft - 1, recordsLeft - Len(pg))} :
              pg \in PageSet(recordsLeft)}

Sources ==
  {s \in SourcesOf(MaxPages, MaxCatalog) : s = <<>> \/ s[Len(s)] # <<>>}

\* the response to GET /packages/critical?per_page=PER_PAGE&page=n
PageOf(src, n) ==
  IF n <= Len(src) THEN src[n]
  ELSE IF endless /\ src # <<>> THEN src[Len(src)]
  ELSE <<>>

\* the records fetchAllCriticalPackages can collect from a source: its pages
\* up to the first empty one
RECURSIVE CatalogOf(_)
CatalogOf(src) ==
  IF src = <<>> \/ Head(src) = <<>> THEN <<>>
  ELSE Head(src) \o CatalogOf(Tail(src))

\* ---- a previous artifact at dbPath ----
PreviousStore == updateBuildInfo(insertPackage(EmptyStore, Requests).db)

InitCommon ==
  /\ pc = "idle"
  /\ fetchVersionsData \in BOOLEAN
  /\ db \in {NoStore, PreviousStore}
  /\ packages = <<>>
  /\ page = 1
  /\ fetchLog = <<>>
  /\ progress = <<>>
  /\ i = 0
  /\ completed = 0
  /\ task = <<>>
  /\ results = <<>>
  /\ lookups = <<>>
  /\ lookupFailed = {}
  /\ error = "none"
  /\ exitCode = -1
  /\ calls = 0
  /\ lastCall = <<>>
  /\ lastWritten = {}
  /\ lastOp = NoOp
  /\ stats = NoStats

Init ==
  /\ InitCommon
  /\ source \in Sources
  /\ endless = FALSE
  /\ failing \in SUBSET (1..Len(CatalogOf(source)))

\* ---- build: up to the first page request ----
\* a sink that puts the newest message first
ReportPrepending(msg, n) == progress' = <<[msg |-> msg, n |-> n]>> \o progress

\* onProgress(message): the messages in the order of the calls
Report(msg, n) == progress' = Append(progress, [msg |-> msg, n |-> n])

\* await unlink(dbPath).catch(() => {}): the file is gone, or, the rejection
\* of unlink being swallowed, it is still there as it was
AfterUnlink(d) == {NoStore, d}

\* build, lines 321-324: mkdir, and the three unlinks of the old artifact
RemoveOldArtifact ==
  /\ pc = "idle"
  /\ db' \in AfterUnlink(db)
  /\ pc' = "unlinked"
  /\ UNCHANGED <<fetchVersionsData, source, endless,
                 failing, packages, page, fetchLog,
                 progress, i, completed, task, results, lookups, lookupFailed,
                 error, exitCode, storeVars>>

\* a schema of CREATE TABLE IF NOT EXISTS: an existing store is kept
createDatabaseIfNotExists(d) == Ok([d EXCEPT !.schema = TRUE])

\* createDatabase(dbPath): CREATE TABLE packages throws on a file that has
\* the table already; on an absent file it gives the empty schema
createDatabase(d) == IF d.schema THEN Fail(d) ELSE Ok(EmptyStore)

\* build, lines 326-327: the message, then createDatabase(dbPath)
CreateDatabase ==
  /\ pc = "unlinked"
  /\ progress' = Append(progress, [msg |-> "Creating database...", n |-> 0])
  /\ LET r == createDatabase(db) IN
       /\ db' = r.db
       /\ pc' = IF r.ok THEN "created" ELSE "failed"
       /\ error' = IF r.ok THEN error ELSE "SQLITE_ERROR"
  /\ UNCHANGED <<fetchVersionsData, source, endless,
                 failing, packages, page, fetchLog,
                 i, completed, task, results, lookups, lookupFailed,
                 exitCode, storeVars>>

\* fetchJson of a page: the request goes out
GetPage(n) == [ev |-> "GET", per_page |-> PER_PAGE, page |-> n]

\* a push that keeps only the page just received
PushReplacing(pkgs, batch) == batch

\* packages.push(...batch)
Push(pkgs, batch) == pkgs \o batch

\* a loop that goes on to the next request without sleeping
SleepSkipped(ms) == <<>>

\* await sleep(ms), as the entry it leaves in the log
Sleep(ms) == <<[ev |-> "SLEEP", ms |-> ms]>>

\* a page error that is caught inside fetchAllCriticalPackages, which then
\* returns what it has
AfterPageErrorCaught == "paginated"

\* where build is after fetchJson threw on a page: nothing catches it on the
\* way up, so build has rejected
AfterPageError == "failed"

\* build line 329 and fetchAllCriticalPackages up to its first await
FetchFirstPage ==
  /\ pc = "created"
  /\ progress' = progress \o
       <<[msg |-> "Fetching critical packages...", n |-> 0],
         [msg |-> "Fetching page", n |-> page]>>
  /\ fetchLog' = Append(fetchLog, GetPage(page))
  /\ pc' = "awaitPage"
  /\ UNCHANGED <<fetchVersionsData, source, endless,
                 failing, db, packages, page,
                 i, completed, task, results, lookups, lookupFailed, error,
                 exitCode, storeVars>>

\* a non-empty page arrives: push, page++, start the sleep
PageArrives ==
  /\ pc = "awaitPage"
  /\ PageOf(source, page) # <<>>
  /\ packages' = Push(packages, PageOf(source, page))
  /\ page' = page + 1
  /\ fetchLog' = Append(fetchLog, [ev |-> "PAGE", page |-> page])
  /\ pc' = "pageSleep"
  /\ UNCHANGED <<fetchVersionsData, source, endless, failing, db, progress,
                 i, completed, task, results, lookups, lookupFailed, error,
                 exitCode, storeVars>>

\* sleep(RATE_LIMIT_MS) ends: next iteration, up to its fetch
PageSleepEnds ==
  /\ pc = "pageSleep"
  /\ page <= MaxRequests
  /\ Report("Fetching page", page)
  /\ fetchLog' = fetchLog \o Sleep(RATE_LIMIT_MS) \o <<GetPage(page)>>
  /\ pc' = "awaitPage"
  /\ UNCHANGED <<fetchVersionsData, source, endless,
                 failing, db, packages, page,
                 i, completed, task, results, lookups, lookupFailed, error,
                 exitCode, storeVars>>

\* a loop that has no break: after an empty page it sleeps and asks for the
\* next one
EmptyPageArrivesContinuing ==
  /\ pc = "awaitPage"
  /\ PageOf(source, page) = <<>>
  /\ page' = page + 1
  /\ fetchLog' = Append(fetchLog, [ev |-> "EMPTY", page |-> page])
  /\ pc' = "pageSleep"
  /\ UNCHANGED <<fetchVersionsData, source, endless, failing, db, packages,
                 progress, i, completed, task, results, lookups, lookupFailed,
                 error, exitCode, storeVars>>

\* an empty page arrives: break, return packages
EmptyPageArrives ==
  /\ pc = "awaitPage"
  /\ PageOf(source, page) = <<>>
  /\ fetchLog' = Append(fetchLog, [ev |-> "EMPTY", page |-> page])
  /\ pc' = "paginated"
  /\ UNCHANGED <<fetchVersionsData, source, endless,
                 failing, db, packages, page,
                 progress, i, completed, task, results, lookups, lookupFailed,
                 error, exitCode, storeVars>>

\* the page fetch fails (response not ok, network error, undecodable body):
\* fetchJson throws, fetchAllCriticalPackages and build reject
PageFetchFails ==
  /\ pc = "awaitPage"
  /\ fetchLog' = Append(fetchLog, [ev |-> "ERROR", page |-> page])
  /\ pc' = AfterPageError
  /\ error' = "HTTP"
  /\ UNCHANGED <<fetchVersionsData, source, endless,
                 failing, db, packages, page,
                 progress, i, completed, task, results, lookups, lookupFailed,
                 exitCode, storeVars>>

\* ---- build: the bulk transaction ----
\* a function that is run without a transaction: what it wrote before it
\* threw stays
TransactionKeeping(d, r) == r

\* a rollback that discards the rows committed before the transaction too
TransactionResetting(d, r) == IF r.ok THEN Ok(r.db) ELSE Fail(EmptyStore)

\* db.transaction(fn): the changes of fn, or none of them when fn throws
Transaction(d, r) == IF r.ok THEN Ok(r.db) ELSE Fail(d)

\* the value of a singleton set (binds a result that is computed once)
Only(S) == CHOOSE x \in S : TRUE

\* one iteration of the body of insertAll: the package, its repo metadata, its
\* advisories; a write that throws ends it
insertRecord(d, pkg) ==
  LET r1 == insertPackage(d, pkg)
      r2 == insertRepoMetadata(r1.db, pkg.id, pkg.repo_metadata, pkg.host)
      r3 == insertAdvisories(r2.db, pkg.id, pkg.advisories)
  IN IF ~r1.ok THEN r1
     ELSE IF ~r2.ok THEN r2
     ELSE r3

\* body of insertAll: the loop over the records
RECURSIVE insertAllFrom(_, _)
insertAllFrom(d, pkgs) ==
  IF pkgs = <<>> THEN Ok(d)
  ELSE Only({IF r.ok THEN insertAllFrom(r.db, Tail(pkgs)) ELSE r :
               r \in {insertRecord(d, Head(pkgs))}})

insertAll(d, pkgs) == Transaction(d, insertAllFrom(d, pkgs))

\* build, lines 331-342: announce the count, run insertAll(packages)
InsertAllPackages ==
  /\ pc = "paginated"
  /\ progress' = progress \o
       <<[msg |-> "Found critical packages", n |-> Len(packages)],
         [msg |-> "Inserting packages...", n |-> 0]>>
  /\ \E r \in {insertAll(db, packages)} :
       /\ db' = r.db
       /\ pc' = IF r.ok THEN "inserted" ELSE "failed"
       /\ error' = IF r.ok THEN error ELSE "SQLITE_CONSTRAINT"
  /\ UNCHANGED <<fetchVersionsData, source, endless,
                 failing, packages, page, fetchLog,
                 i, completed, task, results, lookups, lookupFailed,
                 exitCode, storeVars>>

\* ---- build: version enrichment ----
\* an enrichment that does not test fetchVersionsData
StartEnrichmentAlways ==
  /\ pc = "inserted"
  /\ Report("Fetching versions...", 0)
  /\ completed' = 0
  /\ i' = 0
  /\ task' = [k \in 1..Len(packages) |-> "idle"]
  /\ results' = [k \in 1..Len(packages) |-> <<>>]
  /\ lookups' = [k \in 1..Len(packages) |-> 0]
  /\ pc' = "loop"
  /\ UNCHANGED <<fetchVersionsData, source, endless,
                 failing, db, packages, page,
                 fetchLog, lookupFailed, error, exitCode, storeVars>>

\* build, lines 344-347 and the loop initialisation
StartEnrichment ==
  /\ pc = "inserted"
  /\ fetchVersionsData
  /\ Report("Fetching versions...", 0)
  /\ completed' = 0
  /\ i' = 0
  /\ task' = [k \in 1..Len(packages) |-> "idle"]
  /\ results' = [k \in 1..Len(packages) |-> <<>>]
  /\ lookups' = [k \in 1..Len(packages) |-> 0]
  /\ pc' = "loop"
  /\ UNCHANGED <<fetchVersionsData, source, endless,
                 failing, db, packages, page,
                 fetchLog, lookupFailed, error, exitCode, storeVars>>

\* a slice without its end
SliceUnbounded(from) == (from + 1)..Len(packages)

\* packages.slice(from, from + CONCURRENCY), as catalog positions (1-based)
Slice(from) == (from + 1)..Min(from + CONCURRENCY, Len(packages))

\* fetchVersionNumbers up to its first await: a request goes out unless
\* ecosystemToRegistry gave a falsy value
IssuesLookup(pkg) == ecosystemToRegistry(pkg.ecosystem) # NoRegistry

\* one iteration of the loop up to Promise.all: batch.map(processPackage)
\* starts every task of the slice
StartBatch ==
  /\ pc = "loop"
  /\ i < Len(packages)
  /\ task' = [k \in DOMAIN task |->
                IF k \in Slice(i)
                  THEN IF IssuesLookup(packages[k]) THEN "fetching"
                                                    ELSE "sleeping"
                  ELSE task[k]]
  /\ lookups' = [k \in DOMAIN lookups |->
                   IF k \in Slice(i) /\ IssuesLookup(packages[k])
                     THEN lookups[k] + 1 ELSE lookups[k]]
  /\ pc' = "batch"
  /\ UNCHANGED <<fetchVersionsData, source, endless,
                 failing, db, packages, page,
                 fetchLog, progress, i, completed, results, lookupFailed,
                 error, exitCode, storeVars>>

\* whether the version request of position k fails: the source fails it, or
\* the registry path names no registry of the remote API
LookupFails(k) ==
  \/ k \in failing
  \/ ecosystemToRegistry(packages[k].ecosystem) \notin RemoteRegistries

\* fetchVersionNumbers after its await: the JSON array, or [] from the catch
LookupResult(k) ==
  IF LookupFails(k) THEN <<>>
  ELSE RemoteVersionNumbers(ecosystemToRegistry(packages[k].ecosystem),
                            packages[k].name)

\* a lookup whose failure is not caught: it rejects processPackage, Promise.all
\* and build
LookupReturnsUncaught(k) ==
  /\ pc = "batch"
  /\ k \in DOMAIN task
  /\ task[k] = "fetching"
  /\ results' = [results EXCEPT ![k] = LookupResult(k)]
  /\ lookupFailed' = IF LookupFails(k) THEN lookupFailed \cup {k}
                                        ELSE lookupFailed
  /\ task' = [task EXCEPT ![k] = "sleeping"]
  /\ pc' = IF LookupFails(k) THEN "failed" ELSE pc
  /\ error' = IF LookupFails(k) THEN "HTTP" ELSE error
  /\ UNCHANGED <<fetchVersionsData, source, endless,
                 failing, db, packages, page,
                 fetchLog, progress, i, completed, lookups,
                 exitCode, storeVars>>

\* a lookup that is issued a second time when its first request failed
LookupReturnsRetrying(k) ==
  /\ pc = "batch"
  /\ k \in DOMAIN task
  /\ task[k] = "fetching"
  /\ IF LookupFails(k) /\ lookups[k] < 2
       THEN /\ lookups' = [lookups EXCEPT ![k] = lookups[k] + 1]
            /\ UNCHANGED <<results, lookupFailed, task>>
       ELSE /\ results' = [results EXCEPT ![k] = LookupResult(k)]
            /\ lookupFailed' = IF LookupFails(k) THEN lookupFailed \cup {k}
                                                  ELSE lookupFailed
            /\ task' = [task EXCEPT ![k] = "sleeping"]
            /\ lookups' = lookups
  /\ UNCHANGED <<pc, fetchVersionsData, source, endless,
                 failing, db, packages, page,
                 fetchLog, progress, i, completed, error,
                 exitCode, storeVars>>

\* the response of the lookup of position k arrives; processPackage goes on
\* to its sleep
LookupReturns(k) ==
  /\ pc = "batch"
  /\ k \in DOMAIN task
  /\ task[k] = "fetching"
  /\ results' = [results EXCEPT ![k] = LookupResult(k)]
  /\ lookupFailed' = IF LookupFails(k) THEN lookupFailed \cup {k}
                                        ELSE lookupFailed
  /\ task' = [task EXCEPT ![k] = "sleeping"]
  /\ UNCHANGED <<pc, fetchVersionsData, source, endless,
                 failing, db, packages, page,
                 fetchLog, progress, i, completed, lookups, error,
                 exitCode, storeVars>>

\* sleep(RATE_LIMIT_MS) of processPackage ends: the task resolves
TaskSleepEnds(k) ==
  /\ pc = "batch"
  /\ k \in DOMAIN task
  /\ task[k] = "sleeping"
  /\ task' = [task EXCEPT ![k] = "done"]
  /\ UNCHANGED <<pc, fetchVersionsData, source, endless,
                 failing, db, packages, page,
                 fetchLog, progress, i, completed, results, lookups,
                 lookupFailed, error, exitCode, storeVars>>

\* results paired with the packages in the opposite order
ResultPkgMirrored(k) == packages[Len(packages) + 1 - k]

\* the pkg of the result object { pkg, versions } of position k
ResultPkg(k) == packages[k]

\* body of the version transaction over the results from position `from` to
\* position `to`
RECURSIVE insertResultsFrom(_, _, _)
insertResultsFrom(d, from, to) ==
  IF from > to THEN Ok(d)
  ELSE IF Len(results[from]) > 0
    THEN Only({IF r.ok THEN insertResultsFrom(r.db, from + 1, to) ELSE r :
                 r \in {insertVersions(d, ResultPkg(from).id, results[from])}})
  ELSE insertResultsFrom(d, from + 1, to)

\* a wait that ends with the first task that resolves
FirstSettled == \E k \in Slice(i) : task[k] = "done"

\* await Promise.all(batch.map(processPackage)): every task has resolved
AllSettled == \A k \in Slice(i) : task[k] = "done"

\* a report that counts a full batch whatever the length of the slice
CommitBatchNominal ==
  /\ pc = "batch"
  /\ AllSettled
  /\ LET r == Transaction(db, insertResultsFrom(db, i + 1,
                                                Min(i + CONCURRENCY, Len(packages))))
     IN /\ db' = r.db
        /\ IF r.ok
             THEN /\ completed' = completed + CONCURRENCY
                  /\ Report("Fetched versions for", completed')
                  /\ i' = i + CONCURRENCY
                  /\ pc' = "loop"
                  /\ error' = error
             ELSE /\ pc' = "failed"
                  /\ error' = "SQLITE_CONSTRAINT"
                  /\ UNCHANGED <<completed, progress, i>>
  /\ UNCHANGED <<fetchVersionsData, source, endless,
                 failing, packages, page, fetchLog,
                 task, results, lookups, lookupFailed, exitCode, storeVars>>

\* Promise.all resolved: the version transaction of the batch, the progress
\* report, i += CONCURRENCY
CommitBatch ==
  /\ pc = "batch"
  /\ AllSettled
  /\ LET r == Transaction(db, insertResultsFrom(db, i + 1,
                                                Min(i + CONCURRENCY, Len(packages))))
     IN /\ db' = r.db
        /\ IF r.ok
             THEN /\ completed' = completed + Cardinality(Slice(i))
                  /\ Report("Fetched versions for", completed')
                  /\ i' = i + CONCURRENCY
                  /\ pc' = "loop"
                  /\ error' = error
             ELSE /\ pc' = "failed"
                  /\ error' = "SQLITE_CONSTRAINT"
                  /\ UNCHANGED <<completed, progress, i>>
  /\ UNCHANGED <<fetchVersionsData, source, endless,
                 failing, packages, page, fetchLog,
                 task, results, lookups, lookupFailed, exitCode, storeVars>>

\* build, lines 373-379: updateBuildInfo, the summary line, db.close
FinishBuild ==
  /\ \/ pc = "loop" /\ i >= Len(packages)
     \/ pc = "inserted" /\ ~fetchVersionsData
  /\ db' = updateBuildInfo(db)
  /\ progress' = Append(progress,
        [msg |-> "Build complete", n |-> Cardinality(db.packages)])
  /\ pc' = "done"
  /\ UNCHANGED <<fetchVersionsData, source, endless,
                 failing, packages, page, fetchLog,
                 i, completed, task, results, lookups, lookupFailed, error,
                 exitCode, storeVars>>

\* bin.js: build(...).then(() => process.exit(0)).catch(... process.exit(1))
ProcessExit ==
  /\ pc \in {"done", "failed"}
  /\ exitCode = -1
  /\ exitCode' = IF pc = "done" THEN 0 ELSE 1
  /\ UNCHANGED <<pc, fetchVersionsData, source, endless,
                 failing, db, packages, page,
                 fetchLog, progress, i, completed, task, results, lookups,
                 lookupFailed, error, storeVars>>

Next ==
  \/ RemoveOldArtifact
  \/ CreateDatabase
  \/ FetchFirstPage
  \/ PageArrives
  \/ PageSleepEnds
  \/ EmptyPageArrives
  \/ PageFetchFails
  \/ InsertAllPackages
  \/ StartEnrichment
  \/ StartBatch
  \/ \E k \in 1..Len(packages) : LookupReturns(k)
  \/ \E k \in 1..Len(packages) : TaskSleepEnds(k)
  \/ CommitBatch
  \/ FinishBuild
  \/ ProcessExit

Spec == Init /\ [][Next]_vars

\* ---- fan-out scenarios: a catalog longer than one batch ----
LongCatalog(n) == [k \in 1..n |-> LongRecord(k)]

\* the long catalog followed by a record that reissues, under another id, the
\* (ecosystem, name) of its last record
ReissuingCatalog(n) ==
  Append(LongCatalog(n),
         [LongRecord(n) EXCEPT !.id = 100 + n + 1, !.description = "Reissued"])

InitFanOut ==
  /\ InitCommon
  /\ endless = FALSE
  /\ \/ source = <<LongCatalog(MaxLong)>> /\ failing = {3}
     \/ source = <<ReissuingCatalog(MaxLong)>> /\ failing = {}

SpecFanOut == InitFanOut /\ [][Next]_vars

\* ---- termination: every request completes, every timer fires ----
\* the records of the sources of the termination scenarios: a package, and
\* one that reissues its (ecosystem, name) under another id
LiveRecords == {BasePackage, LodashReissued}

\* the sources of Spec made of these records
LiveSources ==
  {s \in Sources :
     \A n \in 1..Len(s) : \A k \in 1..Len(s[n]) : s[n][k] \in LiveRecords}

\* a catalog one record longer than a batch; every second record is of an
\* ecosystem outside the table, for which no request is issued
TwoBatchCatalog ==
  [k \in 1..(CONCURRENCY + 1) |->
     IF k % 2 = 0 THEN [LongRecord(k) EXCEPT !.ecosystem = "swift"]
     ELSE LongRecord(k)]

\* each source as it is, and serving its last page again for every later
\* page number; and a full build of a catalog of two batches
InitLive ==
  /\ InitCommon
  /\ \/ /\ source \in LiveSources
        /\ endless \in BOOLEAN
        /\ endless => source # <<>>
        /\ failing \in (IF endless THEN {{}}
                        ELSE SUBSET (1..Len(CatalogOf(source))))
     \/ /\ source = <<TwoBatchCatalog>>
        /\ endless = FALSE
        /\ failing = {3}
        /\ fetchVersionsData
        /\ db = NoStore

\* a pending response, a pending timer or the synchronous code after an await
\* is not postponed for ever
SpecLive == InitLive /\ [][Next]_vars /\ WF_vars(Next)

\* ---- store scenarios: the upsert operations called on an open store ----
StoreIds == {1, 2}

StoreMetadata == {NoObject, LodashRepo}

\* a list with an empty uuid, a null severity and a uuid that occurs twice
RepeatedUuidList ==
  Arr(<<Advisory("GHSA-1", "HIGH"), Advisory("", "LOW"),
        Advisory("GHSA-2", NULL), Advisory("GHSA-1", "LOW")>>)

StoreAdvisoryLists ==
  {NoArray, Arr(<<>>), Arr(<<Advisory("GHSA-1", "LOW")>>),
   Arr(<<Advisory("GHSA-1", "HIGH"), Advisory(NULL, "LOW"), NoObject>>),
   RepeatedUuidList}

StoreVersionLists == {<<>>, <<"1.0.0">>, <<"1.0.0", "2.0.0", "1.0.0">>}

InitStore ==
  /\ pc = "store"
  /\ fetchVersionsData = TRUE
  /\ source = <<>>
  /\ endless = FALSE
  /\ failing = {}
  /\ db = EmptyStore
  /\ packages = <<>>
  /\ page = 1
  /\ fetchLog = <<>>
  /\ progress = <<>>
  /\ i = 0
  /\ completed = 0
  /\ task = <<>>
  /\ results = <<>>
  /\ lookups = <<>>
  /\ lookupFailed = {}
  /\ error = "none"
  /\ exitCode = -1
  /\ calls = 0
  /\ lastCall = <<>>
  /\ lastWritten = {}
  /\ lastOp = NoOp
  /\ stats = NoStats

\* a call of insertPackage(db, pkg); a call that throws changes nothing
UpsertPackage(pkg) ==
  /\ pc = "store"
  /\ calls < MaxCalls
  /\ calls' = calls + 1
  /\ LET r == insertPackage(db, pkg) IN
       /\ db' = r.db
       /\ lastCall' = IF r.ok THEN <<pkg>> ELSE lastCall
       /\ lastWritten' =
            IF r.ok THEN {w \in lastWritten : w.id # pkg.id} \cup {pkg}
                    ELSE lastWritten
  /\ lastOp' = [op |-> "insertPackage", id |-> pkg.id, arg |-> pkg]
  /\ UNCHANGED <<pc, fetchVersionsData, source, endless,
                 failing, packages, page,
                 fetchLog, progress, i, completed, task, results, lookups,
                 lookupFailed, error, exitCode, stats>>

\* a call of insertRepoMetadata(db, packageId, repoMetadata, host)
UpsertRepoMetadata(packageId, repoMetadata, host) ==
  /\ pc = "store"
  /\ calls < MaxCalls
  /\ calls' = calls + 1
  /\ db' = insertRepoMetadata(db, packageId, repoMetadata, host).db
  /\ lastOp' = [op |-> "insertRepoMetadata", id |-> packageId, arg |-> [metadata |-> repoMetadata, host |-> host]]
  /\ UNCHANGED <<pc, fetchVersionsData, source, endless,
                 failing, packages, page,
                 fetchLog, progress, i, completed, task, results, lookups,
                 lookupFailed, error, exitCode, lastCall, lastWritten, stats>>

\* a call of insertAdvisories(db, packageId, advisories); the rows written
\* before a throw stay (no transaction around the call)
UpsertAdvisories(packageId, advisories) ==
  /\ pc = "store"
  /\ calls < MaxCalls
  /\ calls' = calls + 1
  /\ db' = insertAdvisories(db, packageId, advisories).db
  /\ lastOp' = [op |-> "insertAdvisories", id |-> packageId, arg |-> advisories]
  /\ UNCHANGED <<pc, fetchVersionsData, source, endless,
                 failing, packages, page,
                 fetchLog, progress, i, completed, task, results, lookups,
                 lookupFailed, error, exitCode, lastCall, lastWritten, stats>>

\* a call of insertVersions(db, packageId, versionNumbers)
UpsertVersions(packageId, versionNumbers) ==
  /\ pc = "store"
  /\ calls < MaxCalls
  /\ calls' = calls + 1
  /\ db' = insertVersions(db, packageId, versionNumbers).db
  /\ lastOp' = [op |-> "insertVersions", id |-> packageId, arg |-> versionNumbers]
  /\ UNCHANGED <<pc, fetchVersionsData, source, endless,
                 failing, packages, page,
                 fetchLog, progress, i, completed, task, results, lookups,
                 lookupFailed, error, exitCode, lastCall, lastWritten, stats>>

\* a call of updateBuildInfo(db)
UpdateBuildInfo ==
  /\ pc = "store"
  /\ calls < MaxCalls
  /\ calls' = calls + 1
  /\ db' = updateBuildInfo(db)
  /\ lastOp' = [op |-> "updateBuildInfo"]
  /\ UNCHANGED <<pc, fetchVersionsData, source, endless,
                 failing, packages, page,
                 fetchLog, progress, i, completed, task, results, lookups,
                 lookupFailed, error, exitCode, lastCall, lastWritten, stats>>

\* a run of bin.js --stats on the file: a read-only connection, the report
ShowStats ==
  /\ pc = "store"
  /\ calls < MaxCalls
  /\ calls' = calls + 1
  /\ stats' = Stats(db)
  /\ lastOp' = [op |-> "stats"]
  /\ UNCHANGED <<pc, fetchVersionsData, source, endless,
                 failing, db, packages, page,
                 fetchLog, progress, i, completed, task, results, lookups,
                 lookupFailed, error, exitCode, lastCall, lastWritten>>

NextStore ==
  \/ \E pkg \in CatalogRecords : UpsertPackage(pkg)
  \/ \E id \in StoreIds, m \in StoreMetadata, h \in {NoObject, GitHub} :
        UpsertRepoMetadata(id, m, h)
  \/ \E id \in StoreIds, as \in StoreAdvisoryLists : UpsertAdvisories(id, as)
  \/ \E id \in StoreIds, vs \in StoreVersionLists : UpsertVersions(id, vs)
  \/ UpdateBuildInfo
  \/ ShowStats

SpecStore == InitStore /\ [][NextStore]_vars

\* ---- properties ----
Last(seq) == seq[Len(seq)]

IsGet(e) == e.ev = "GET"

\* the page requests made so far, in order
PageRequests == SelectSeq(fetchLog, IsGet)

\* the number of non-empty pages a source serves before its first empty one
RECURSIVE LeadingPages(_)
LeadingPages(src) ==
  IF src = <<>> \/ Head(src) = <<>> THEN 0 ELSE 1 + LeadingPages(Tail(src))

\* fetchAllCriticalPackages has returned its list
PaginationReturned == fetchLog # <<>> /\ Last(fetchLog).ev = "EMPTY"

\* C1: pages 1, 2, 3, ... are requested one at a time (each request is
\* answered before the next goes out) in increasing order with per_page =
\* PER_PAGE; when fetchAllCriticalPackages returns, its result is the
\* concatenation of the k non-empty pages that precede the first empty page
\* of the source, and exactly k + 1 requests were made.
C1_PagesInOrderUntilEmpty ==
  /\ \A j \in 1..Len(PageRequests) :
        PageRequests[j].page = j /\ PageRequests[j].per_page = PER_PAGE
  /\ \A j \in 1..(Len(fetchLog) - 1) :
        fetchLog[j].ev = "GET" =>
          /\ fetchLog[j + 1].ev \in {"PAGE", "EMPTY", "ERROR"}
          /\ fetchLog[j + 1].page = fetchLog[j].page
  /\ PaginationReturned =>
        /\ packages = CatalogOf(source)
        /\ Len(PageRequests) = LeadingPages(source) + 1

\* pagination returned two pages of a source, one record each
C1_Witness ==
  /\ PaginationReturned
  /\ LeadingPages(source) = 2
  /\ Len(packages) = 2
  /\ Len(PageRequests) = 3

\* C2: once a page fetch has failed, build has rejected with that failure, the
\* failed request is the last one made, the records collected so far were
\* handed to nobody (no count announced), the process exits with 1 and the
\* store holds no package, advisory, repo_metadata, version or build_info row.
C2_PageFailureIsFatal ==
  (\E j \in 1..Len(fetchLog) : fetchLog[j].ev = "ERROR") =>
     /\ pc = "failed"
     /\ error = "HTTP"
     /\ Last(fetchLog).ev = "ERROR"
     /\ \A j \in 1..Len(progress) : progress[j].msg # "Found critical packages"
     /\ exitCode \in {-1, 1}
     /\ db.packages = {} /\ db.advisories = {} /\ db.repo_metadata = {}
     /\ db.versions = {} /\ db.build_info = {}

\* the second page failed after the first had delivered records, and the
\* process has exited
C2_Witness ==
  /\ error = "HTTP"
  /\ exitCode = 1
  /\ packages # <<>>
  /\ db.schema

Responses == {"PAGE", "EMPTY", "ERROR"}

\* C3 as claimed: every page fetch, whatever its outcome, is followed by the
\* delay before the operation continues, returns or fails.
C3_DelayAfterEveryFetch ==
  \A j \in 1..Len(fetchLog) :
    fetchLog[j].ev \in Responses =>
      \/ j = Len(fetchLog) /\ pc = "pageSleep"
      \/ j < Len(fetchLog) /\ fetchLog[j + 1].ev = "SLEEP"

\* C3 as amended: the delay of RATE_LIMIT_MS follows every fetch that returned
\* a non-empty page, before the next request; the terminating empty page and
\* a failed fetch are followed by no delay: the operation returns or fails at
\* once.
C3_DelayAfterNonEmptyPage ==
  \A j \in 1..Len(fetchLog) :
    /\ fetchLog[j].ev = "PAGE" =>
         \/ j = Len(fetchLog) /\ pc = "pageSleep"
         \/ /\ j + 2 <= Len(fetchLog)
            /\ fetchLog[j + 1].ev = "SLEEP"
            /\ fetchLog[j + 1].ms = RATE_LIMIT_MS
            /\ fetchLog[j + 2].ev = "GET"
    /\ fetchLog[j].ev \in {"EMPTY", "ERROR"} =>
         j = Len(fetchLog) /\ pc # "pageSleep"
    /\ fetchLog[j].ev = "SLEEP" => j > 1 /\ fetchLog[j - 1].ev = "PAGE"

\* pagination returned after two non-empty pages: two delays, none after the
\* empty page
C3_Witness ==
  /\ pc = "paginated"
  /\ Last(fetchLog).ev = "EMPTY"
  /\ Len(SelectSeq(fetchLog, LAMBDA e : e.ev = "SLEEP")) = 2

\* the version lookups that are outstanding
Outstanding == {k \in DOMAIN task : task[k] = "fetching"}

\* C4: at most CONCURRENCY version lookups are outstanding, and none is
\* outstanding outside the enrichment phase (while a batch is awaited).
C4_BoundedFanOut ==
  /\ Cardinality(Outstanding) <= CONCURRENCY
  /\ pc # "batch" => Outstanding = {}

\* a full batch is outstanding while further packages wait for theirs
C4_Witness ==
  /\ Cardinality(Outstanding) = CONCURRENCY
  /\ \E k \in DOMAIN task : task[k] = "idle"

\* the batch (0-based) of a catalog position
BatchOf(k) == (k - 1) \div CONCURRENCY

\* the batches whose version transaction has committed
Committed == i \div CONCURRENCY

\* C5: a task of batch b is started only when every task of every earlier
\* batch has completed (lookup and delay) and the version transaction of that
\* batch has committed its rows.
C5_BatchesSequential ==
  \A k \in DOMAIN task :
    task[k] # "idle" =>
      \A j \in DOMAIN task :
        BatchOf(j) < BatchOf(k) =>
          /\ task[j] = "done"
          /\ BatchOf(j) < Committed
          /\ \A n \in 1..Len(results[j]) :
                [package_id |-> packages[j].id, number |-> results[j][n]]
                  \in db.versions

\* in the second batch a later task has completed while an earlier one still
\* awaits its lookup
C5_Witness ==
  \E j, k \in DOMAIN task :
    /\ j < k
    /\ BatchOf(j) = 1 /\ BatchOf(k) = 1
    /\ task[j] = "fetching" /\ task[k] = "done"
    /\ db.versions # {}

\* the enrichment phase of this build has begun
EnrichmentStarted ==
  \E j \in 1..Len(progress) : progress[j].msg = "Fetching versions..."

\* the version rows a catalog position accounts for
RowsOf(k) ==
  {[package_id |-> packages[k].id, number |-> results[k][n]] :
     n \in 1..Len(results[k])}

\* C6 as claimed: whatever the package sequence and whichever lookups fail,
\* build completes successfully: once enrichment has begun it does not fail.
C6_BuildAlwaysCompletes == EnrichmentStarted => pc # "failed"

C6_Inv ==
  /\ \A k \in lookupFailed : results[k] = <<>>
  /\ \A k \in DOMAIN task :
        /\ (k \in failing /\ lookups[k] > 0 /\ task[k] # "fetching")
              => k \in lookupFailed
        /\ (k \notin lookupFailed /\ lookups[k] > 0 /\ task[k] # "fetching")
              => results[k] =
                   RemoteVersionNumbers(
                     ecosystemToRegistry(packages[k].ecosystem),
                     packages[k].name)
  /\ (pc = "failed" /\ EnrichmentStarted) =>
        /\ error = "SQLITE_CONSTRAINT"
        /\ \E k \in Slice(i) :
              /\ k \notin lookupFailed
              /\ results[k] # <<>>
              /\ ~ \E r \in db.packages : r.id = packages[k].id
  /\ (pc = "done" /\ fetchVersionsData) =>
        /\ \A k \in DOMAIN task : task[k] = "done"
        /\ db.versions =
             UNION {RowsOf(k) : k \in DOMAIN task \ lookupFailed}

C6_Step ==
  \A k \in DOMAIN task :
    (k \notin lookupFailed /\ k \in lookupFailed') =>
       /\ pc = "batch" /\ pc' = "batch"
       /\ error' = "none"
       /\ results'[k] = <<>>
       /\ db' = db
       /\ \A j \in DOMAIN task \ {k} :
             task'[j] = task[j] /\ results'[j] = results[j]

\* C6 as amended: a failed lookup leaves build in its batch with no error,
\* gives its own task the empty list and touches no other task; a build that
\* has begun enrichment fails only in a version transaction, on a record
\* whose lookup succeeded and whose package row is no longer in the store
\* (replaced by a later record of the same (ecosystem, name)); and when build
\* completes, the version rows are exactly those of the lookups that did not
\* fail, each under the id of its own record, every such lookup having given
\* what the source returned for it.
C6_LookupFailureIsolated == [](C6_Inv) /\ [][C6_Step]_vars

\* build completed with one lookup failed and another one's versions stored
C6_Witness ==
  /\ pc = "done"
  /\ \E k \in lookupFailed : k \in failing
  /\ \E k \in DOMAIN task : k \notin lookupFailed /\ RowsOf(k) # {}
  /\ db.versions # {}

\* C7: the version rows of the store are exactly the pairs (id of the record,
\* version) for the records of the committed batches and the versions in
\* each record's own result, whatever the order in which the lookups of a
\* batch completed.
C7_VersionsUnderOwnId ==
  db.versions =
    UNION {RowsOf(k) : k \in {j \in DOMAIN task : BatchOf(j) < Committed}}

\* two records of different ids whose lookups returned different lists are
\* both committed
C7_Witness ==
  \E j, k \in DOMAIN task :
    /\ BatchOf(j) < Committed /\ BatchOf(k) < Committed
    /\ packages[j].id # packages[k].id
    /\ results[j] # <<>> /\ results[k] # <<>>
    /\ results[j] # results[k]

\* C8: for an ecosystem that, lower-cased, is none of the 16 names of the
\* table, no version request is issued and the result is the empty list.
C8_NoRequestOutsideTable ==
  \A k \in DOMAIN task :
    ToLowerCase(packages[k].ecosystem) \notin DOMAIN RegistryMap =>
      lookups[k] = 0 /\ results[k] = <<>>

\* SELECT * FROM packages WHERE ecosystem = ? AND name = ?
Lookup(ecosystem, name) ==
  {r \in db.packages : r.ecosystem = ecosystem /\ r.name = name}

\* a row equal in every column to a record
SameColumns(row, rec) ==
  /\ row.id = rec.id
  /\ row.ecosystem = rec.ecosystem
  /\ row.name = rec.name
  /\ row.purl = rec.purl
  /\ row.namespace = rec.namespace
  /\ row.description = rec.description
  /\ row.homepage = rec.homepage
  /\ row.repository_url = rec.repository_url
  /\ row.licenses = rec.licenses
  /\ row.normalized_licenses = [json |-> rec.normalized_licenses]
  /\ row.latest_version = rec.latest_release_number
  /\ row.versions_count = rec.versions_count
  /\ row.downloads = rec.downloads
  /\ row.downloads_period = rec.downloads_period
  /\ row.dependent_packages_count = rec.dependent_packages_count
  /\ row.dependent_repos_count = rec.dependent_repos_count
  /\ row.first_release_at = rec.first_release_published_at
  /\ row.latest_release_at = rec.latest_release_published_at
  /\ row.last_synced_at = rec.last_synced_at
  /\ row.keywords = IF rec.keywords_array.isArray
                      THEN [isNull |-> FALSE, words |-> rec.keywords_array.items]
                      ELSE [isNull |-> TRUE]

C9_Inv ==
  /\ lastCall # <<>> =>
        /\ Cardinality(Lookup(lastCall[1].ecosystem, lastCall[1].name)) = 1
        /\ \A r \in Lookup(lastCall[1].ecosystem, lastCall[1].name) :
              SameColumns(r, lastCall[1])
  /\ \A w \in lastWritten :
        \A r \in db.packages : r.id = w.id => SameColumns(r, w)

C9_Step ==
  /\ lastCall' = lastCall => db'.packages = db.packages
  /\ \A r \in db.packages :
        \/ \E r2 \in db'.packages : r2.id = r.id
        \/ /\ lastCall' # <<>>
           /\ lastCall'[1].id # r.id
           /\ lastCall'[1].ecosystem = r.ecosystem
           /\ lastCall'[1].name = r.name

C10_PackageKeysUnique ==
  \A r1, r2 \in db.packages :
    r1 # r2 =>
      /\ r1.id # r2.id
      /\ ~(r1.ecosystem = r2.ecosystem /\ r1.name = r2.name)

\* a write reused the (ecosystem, name) of another id, whose row is gone
C10_Witness ==
  \E w \in lastWritten :
    /\ ~ \E r \in db.packages : r.id = w.id
    /\ \E r \in db.packages :
          r.id # w.id /\ r.ecosystem = w.ecosystem /\ r.name = w.name

\* ---- the advisory operations ----
\* SELECT * FROM advisories WHERE package_id = ?
AdvisoriesOf(d, id) == {a \in d.advisories : a.package_id = id}

\* an entry of a list that bears a UUID
HasUuid(a) == ~a.isNull /\ a.uuid \notin {NULL, ""}

\* the UUID-bearing entries of a list, in list order
UuidBearing(list) ==
  IF list.isArray THEN SelectSeq(list.items, HasUuid) ELSE <<>>

\* the last UUID-bearing entry of a list that carries the uuid
LastEntry(list, uuid) ==
  LET es == UuidBearing(list)
      at == {n \in 1..Len(es) : es[n].uuid = uuid}
  IN es[CHOOSE m \in at : \A n \in at : n <= m]

\* a row that carries the columns of an entry
SameAdvisory(row, e) ==
  /\ row.uuid = e.uuid
  /\ row.url = e.url
  /\ row.title = e.title
  /\ row.description = e.description
  /\ row.severity = e.severity
  /\ row.published_at = e.published_at
  /\ row.cvss_score = e.cvss_score

\* this step is a call of insertAdvisories for a package that is in the store
\* and has no advisory row
FirstAdvisoriesCall ==
  /\ lastOp'.op = "insertAdvisories"
  /\ \E p \in db.packages : p.id = lastOp'.id
  /\ AdvisoriesOf(db, lastOp'.id) = {}

C11_StepClaimed ==
  FirstAdvisoriesCall =>
    LET after == AdvisoriesOf(db', lastOp'.id) IN
      /\ \A a \in after : a.uuid \notin {NULL, ""}
      /\ Cardinality(after) = Len(UuidBearing(lastOp'.arg))
      /\ (~lastOp'.arg.isArray \/ lastOp'.arg.items = <<>>) => db' = db

\* C11 as claimed: after insertAdvisories(packageId, list) on a package with
\* no prior advisories, only UUID-bearing entries are persisted and the
\* number of advisory rows of the package equals the number of UUID-bearing
\* entries of the list; an empty or absent list writes nothing.
C11_CountEqualsBearingEntries == [][C11_StepClaimed]_vars

C11_StepAmended ==
  FirstAdvisoriesCall =>
    LET id == lastOp'.id
        list == lastOp'.arg
        es == UuidBearing(list)
        uuids == {es[n].uuid : n \in 1..Len(es)}
        after == AdvisoriesOf(db', id)
    IN /\ {a.uuid : a \in after} = uuids
       /\ Cardinality(after) = Cardinality(uuids)
       /\ \A a \in after : SameAdvisory(a, LastEntry(list, a.uuid))
       /\ (~list.isArray \/ list.items = <<>>) => db' = db
       /\ db'.advisories \ after = db.advisories
       /\ db'.packages = db.packages
       /\ db'.repo_metadata = db.repo_metadata
       /\ db'.versions = db.versions

\* C11 as amended: after insertAdvisories(packageId, list) on a package with
\* no prior advisories, the advisory rows of the package are one row per
\* distinct UUID of the UUID-bearing entries (null entries and entries with a
\* null or empty UUID leave no row), each row carrying the columns of the last
\* entry with its UUID, so the number of rows is the number of distinct UUIDs,
\* which is less than the number of UUID-bearing entries when a UUID repeats;
\* an empty or absent list writes nothing, and no other row of the store
\* changes.
C11_OneRowPerDistinctUuid == [][C11_StepAmended]_vars

\* the first advisory call on a package gave a list of three UUID-bearing
\* entries, two with the same UUID, and one entry with an empty UUID
C11_Witness ==
  /\ calls = 2
  /\ lastOp.op = "insertAdvisories"
  /\ lastOp.arg = RepeatedUuidList
  /\ Cardinality(AdvisoriesOf(db, lastOp.id)) = 2

C12_Inv ==
  /\ \A a \in db.advisories : a.uuid # NULL
  /\ \A a1, a2 \in db.advisories :
        (a1.package_id = a2.package_id /\ a1.uuid = a2.uuid) => a1 = a2

C12_Step ==
  lastOp'.op = "insertAdvisories" =>
    LET id == lastOp'.id
        list == lastOp'.arg
        es == UuidBearing(list)
    IN \A a \in AdvisoriesOf(db, id) :
         (\E n \in 1..Len(es) : es[n].uuid = a.uuid) =>
            /\ Cardinality({b \in AdvisoriesOf(db', id) : b.uuid = a.uuid}) = 1
            /\ \A b \in AdvisoriesOf(db', id) :
                  b.uuid = a.uuid =>
                    /\ SameAdvisory(b, LastEntry(list, a.uuid))
                    /\ b.id # a.id

\* C12: no advisory row has a null UUID and no two advisory rows share a
\* (package id, UUID); a write of an advisory whose (package id, UUID) is in
\* the store leaves one row for that key, a new row carrying the columns
\* written last.
C12_AdvisoryKeysUnique == [](C12_Inv) /\ [][C12_Step]_vars

\* an advisory stored as HIGH was written again as LOW: one row, a new
\* surrogate id
C12_Witness ==
  /\ lastOp.op = "insertAdvisories"
  /\ lastOp.arg = Arr(<<Advisory("GHSA-1", "LOW")>>)
  /\ db.advisory_seq = 2
  /\ \E a \in db.advisories :
        /\ AdvisoriesOf(db, lastOp.id) = {a}
        /\ a.severity = "LOW" /\ a.id = 2

\* ---- the full-text projection ----
\* the tokens the full-text tokenizer makes of the texts of the model
Tokenize(text) ==
  CASE text = "Lodash modular utilities" -> {"lodash", "modular", "utilities"}
    [] text = "Reissued" -> {"reissued"}
    [] text = "Python HTTP library" -> {"python", "http", "library"}
    [] text = "left-pad" -> {"left", "pad"}
    [] text = "PyPI" -> {"pypi"}
    [] text = "Constructor" -> {"constructor"}
    [] text = NULL -> {}
    [] OTHER -> {text}

\* the tokens of an indexed document, over its four columns
DocTokens(doc) ==
  Tokenize(doc.ecosystem) \cup Tokenize(doc.name) \cup Tokenize(doc.description)
    \cup (IF doc.keywords.isNull THEN {}
          ELSE {doc.keywords.words[n] : n \in 1..Len(doc.keywords.words)})

\* SELECT p.* FROM packages p JOIN packages_fts fts ON p.id = fts.rowid
\* WHERE packages_fts MATCH token
Search(d, token) ==
  {p \in d.packages :
     \E doc \in d.packages_fts : doc.rowid = p.id /\ token \in DocTokens(doc)}

SearchTokens == {"lodash", "utilities", "modular", "reissued", "http", "npm"}

\* C13: the full-text projection holds exactly one entry per current package
\* row, carrying that row's current (ecosystem, name, description, keywords);
\* a search for a token returns exactly the packages whose current row has
\* the token, so a token that a later write removed finds nothing.
C13_FtsSynchronized ==
  /\ db.packages_fts = {FtsDoc(r) : r \in db.packages}
  /\ \A token \in SearchTokens :
        Search(db, token) =
          {p \in db.packages : token \in DocTokens(FtsDoc(p))}

\* ---- the transactions of build ----
\* build has rejected inside insertAll(packages)
BulkFailed == pc = "failed" /\ error = "SQLITE_CONSTRAINT" /\ ~EnrichmentStarted

\* no other record of the catalog has the id or the (ecosystem, name) of
\* record k
Unrivalled(k) ==
  \A j \in 1..Len(packages) :
    j # k =>
      /\ packages[j].id # packages[k].id
      /\ ~(packages[j].ecosystem = packages[k].ecosystem
            /\ packages[j].name = packages[k].name)

C14_Inv ==
  /\ BulkFailed =>
        /\ db.packages = {} /\ db.repo_metadata = {} /\ db.advisories = {}
        /\ db.packages_fts = {} /\ db.versions = {} /\ db.build_info = {}
        /\ task = <<>> /\ lookups = <<>>
        /\ exitCode \in {-1, 1}
  /\ pc = "inserted" =>
        \A k \in 1..Len(packages) :
          Unrivalled(k) =>
            /\ PackageRow(packages[k]) \in db.packages
            /\ (\E m \in db.repo_metadata : m.package_id = packages[k].id)
                  <=> ~packages[k].repo_metadata.isNull
            /\ {a.uuid : a \in AdvisoriesOf(db, packages[k].id)} =
                  {e.uuid : e \in {UuidBearing(packages[k].advisories)[n] :
                      n \in 1..Len(UuidBearing(packages[k].advisories))}}

C14_Step ==
  /\ (pc = "paginated" /\ pc' = "failed") => db' = db /\ BulkFailed'
  /\ pc = "failed" => UNCHANGED <<pc, db, progress, task, lookups, error>>

\* C14: when a write of the bulk phase fails, insertAll leaves the store as it
\* was before it (no package, repo_metadata, advisory or full-text row of
\* this build), build has rejected with the constraint error, no enrichment
\* step and no store write follows, and the process exits with 1; when it
\* succeeds, every record whose id and (ecosystem, name) no other record of
\* the catalog has is in the store with its package row, its repo_metadata
\* row if it has metadata, and its UUID-bearing advisories.
C14_BulkAllOrNothing == [](C14_Inv) /\ [][C14_Step]_vars

\* the second record of the catalog displaced the first, which had repo
\* metadata and an advisory: the bulk transaction failed after three writes
C14_Witness ==
  /\ BulkFailed
  /\ exitCode = 1
  /\ Len(packages) = 2
  /\ ~packages[1].repo_metadata.isNull
  /\ packages[1].id # packages[2].id

\* build has rejected inside the version transaction of a batch
VersionsFailed == pc = "failed" /\ error = "SQLITE_CONSTRAINT" /\ EnrichmentStarted

C15_Inv ==
  /\ pc \in {"loop", "batch"} \/ VersionsFailed =>
        /\ db.versions =
             UNION {RowsOf(k) : k \in {j \in DOMAIN task : BatchOf(j) < Committed}}
        /\ db.build_info = {}
  /\ VersionsFailed =>
        /\ \A k \in Slice(i) : task[k] = "done"
        /\ \A k \in DOMAIN task : BatchOf(k) > Committed => task[k] = "idle"
        /\ exitCode \in {-1, 1}

C15_Step ==
  /\ db'.versions # db.versions =>
        /\ pc = "batch" /\ pc' = "loop"
        /\ i' = i + CONCURRENCY
        /\ db'.versions = db.versions \cup UNION {RowsOf(k) : k \in Slice(i)}
  /\ (pc = "batch" /\ pc' = "failed") => db' = db
  /\ pc \in {"inserted", "loop", "batch"} =>
        /\ db'.packages = db.packages
        /\ db'.repo_metadata = db.repo_metadata
        /\ db'.advisories = db.advisories
        /\ db'.packages_fts = db.packages_fts
  /\ pc = "failed" => UNCHANGED <<pc, db, task, lookups, i, error>>

\* C15: the version rows change only at the end of a batch, by the rows of
\* that whole batch at once; when the version transaction of a batch fails,
\* the store is what it was before that transaction: the version rows are
\* exactly those of the batches committed before, the rows of the bulk phase
\* are untouched, no build_info row is written, build has rejected, no task
\* of a later batch was or is started, and the process exits with 1.
C15_VersionBatchAtomic == [](C15_Inv) /\ [][C15_Step]_vars

\* the second batch failed on its second record, after the first batch had
\* committed its rows and the first record of the second batch had versions
\* to write
C15_Witness ==
  /\ VersionsFailed
  /\ i = CONCURRENCY
  /\ exitCode = 1
  /\ Cardinality(db.versions) = CONCURRENCY
  /\ results[CONCURRENCY + 1] # <<>>
  /\ Len(packages) > CONCURRENCY + 2

\* ---- build_info ----
C16_Inv ==
  /\ pc = "done" =>
        /\ Cardinality(db.build_info) = 1
        /\ \A b \in db.build_info :
              /\ b.id = 1
              /\ b.package_count = Cardinality(db.packages)
              /\ b.version_count = Cardinality(db.versions)
              /\ b.advisory_count = Cardinality(db.advisories)
  /\ (pc \notin {"idle", "unlinked", "done"} /\ error # "SQLITE_ERROR")
        => db.build_info = {}

C16_Step ==
  /\ db'.build_info # db.build_info =>
        \/ pc = "idle" /\ db'.build_info = {}
        \/ pc # "done" /\ pc' = "done"
  /\ pc' = "done" /\ pc # "done" =>
        /\ db'.packages = db.packages /\ db'.versions = db.versions
        /\ db'.advisories = db.advisories
        /\ db'.repo_metadata = db.repo_metadata
  /\ pc = "done" => db' = db

\* C16: when build has completed the store holds exactly one build_info row,
\* of id 1, whose package_count, version_count and advisory_count are the
\* numbers of rows of packages, versions and advisories; the row is written
\* by the one step that completes the build, which writes nothing else; no
\* build_info row exists between the creation of the schema and that step,
\* and nothing is written after it.
C16_BuildInfoOnceLast == [](C16_Inv) /\ [][C16_Step]_vars

\* a build completed with two packages, more version rows than packages, and
\* an advisory
C16_Witness ==
  /\ pc = "done"
  /\ exitCode = 0
  /\ Cardinality(db.packages) = 2
  /\ Cardinality(db.versions) > 2
  /\ db.advisories # {}

\* ---- the stats operation ----
C17_Inv ==
  (lastOp.op = "stats" /\ db.schema /\ db.build_info = {}) =>
    /\ stats.ok
    /\ stats.built = "unknown"
    /\ stats.packages = Cardinality(db.packages)
    /\ stats.versions = Cardinality(db.versions)
    /\ stats.advisories = Cardinality(db.advisories)
    /\ {line.ecosystem : line \in stats.ecosystems} =
          {p.ecosystem : p \in db.packages}
    /\ \A line \in stats.ecosystems :
          line.count =
            Cardinality({p \in db.packages : p.ecosystem = line.ecosystem})
    /\ {line.severity : line \in stats.severities} =
          {a.severity : a \in db.advisories}
    /\ \A line \in stats.severities :
          /\ line.count =
               Cardinality({a \in db.advisories : a.severity = line.severity})
          /\ line.label =
               IF line.severity \in {NULL, ""} THEN "unknown" ELSE line.severity

C17_Step == lastOp'.op = "stats" => db' = db

\* C17: a stats run on a store that has the schema and no build_info row
\* succeeds; it reports the build time as unknown, the numbers of package,
\* version and advisory rows, one line per ecosystem with the number of
\* package rows of that ecosystem and one line per severity with the number
\* of advisory rows of that severity (a null severity labelled unknown), and
\* it leaves the store unchanged.
C17_StatsWithoutBuildInfo == [](C17_Inv) /\ [][C17_Step]_vars

\* stats ran on a store without build_info that holds a package and two
\* advisories, one of them without severity
C17_Witness ==
  /\ lastOp.op = "stats"
  /\ db.build_info = {}
  /\ stats.ok
  /\ stats.packages = 1
  /\ stats.advisories = 2
  /\ \E line \in stats.severities : line.label = "unknown" /\ line.count = 1

\* ---- the keywords column ----
\* no keywords are present: the collection is absent or has no elements
NoKeywords(pkg) ==
  ~pkg.keywords_array.isArray \/ pkg.keywords_array.items = <<>>

\* C18: after the last insertPackage(record) the keywords column of the row is the
\* record's keywords joined by single spaces in collection order, and it is
\* null whenever no keywords are present (the collection is absent or has no
\* elements).
C18_KeywordsJoinedOrNull ==
  lastCall # <<>> =>
    \A r \in db.packages :
      r.id = lastCall[1].id =>
        IF NoKeywords(lastCall[1])
          THEN r.keywords.isNull
          ELSE /\ ~r.keywords.isNull
               /\ r.keywords.words = lastCall[1].keywords_array.items

\* ---- repo metadata ----
\* SELECT * FROM repo_metadata WHERE package_id = ?
RepoMetadataOf(d, id) == {m \in d.repo_metadata : m.package_id = id}

C19_Inv ==
  /\ \A m \in db.repo_metadata :
        /\ m.archived \in {0, 1}
        /\ m.fork \in {0, 1}
        /\ RepoMetadataOf(db, m.package_id) = {m}
  /\ (lastOp.op = "insertRepoMetadata" /\ ~lastOp.arg.metadata.isNull
        /\ \E p \in db.packages : p.id = lastOp.id) =>
        \E m \in db.repo_metadata :
          /\ RepoMetadataOf(db, lastOp.id) = {m}
          /\ m.owner = lastOp.arg.metadata.owner
          /\ m.full_name = lastOp.arg.metadata.full_name
          /\ m.archived = 1 <=> lastOp.arg.metadata.archived
          /\ m.fork = 1 <=> lastOp.arg.metadata.fork
          /\ m.host = IF lastOp.arg.host.isNull THEN NULL
                                               ELSE lastOp.arg.host.name

C19_Step ==
  /\ (lastOp'.op = "insertRepoMetadata" /\ lastOp'.arg.metadata.isNull)
        => db' = db
  /\ \A id \in StoreIds :
        RepoMetadataOf(db', id) # RepoMetadataOf(db, id) =>
          /\ lastOp'.op = "insertRepoMetadata"
          /\ lastOp'.id = id
          /\ ~lastOp'.arg.metadata.isNull
  /\ (lastOp'.op = "insertRepoMetadata"
        /\ ~ \E p \in db.packages : p.id = lastOp'.id) => db' = db

\* C19: insertRepoMetadata with absent metadata changes nothing, and the
\* repo_metadata row of a package changes only by a call for that package
\* with metadata present, so a package that never had repository data has no
\* row; after a call with metadata present for a package of the store there
\* is exactly one row for its id, carrying the metadata written last (a
\* repeated write replaces the row), and archived and fork are each 0 or 1,
\* 1 exactly when the flag is true.  (A call for an id that has no package
\* row fails on the foreign key and writes nothing.)
C19_RepoMetadataOneToOne == [](C19_Inv) /\ [][C19_Step]_vars

\* metadata was written for a package, then a call with absent metadata for
\* the same package left the row in place
C19_Witness ==
  /\ lastOp.op = "insertRepoMetadata"
  /\ lastOp.arg.metadata.isNull
  /\ \E m \in RepoMetadataOf(db, lastOp.id) : m.fork = 1 /\ m.archived = 0

\* ---- versions ----
\* SELECT * FROM versions WHERE package_id = ?
VersionsOf(d, id) == {v \in d.versions : v.package_id = id}

\* the distinct strings of a list, each at its first place
RECURSIVE Distinct(_)
Distinct(list) ==
  IF list = <<>> THEN <<>>
  ELSE LET front == Distinct(SubSeq(list, 1, Len(list) - 1))
           last == list[Len(list)]
       IN IF \E n \in 1..Len(front) : front[n] = last THEN front
          ELSE Append(front, last)

C20_Step ==
  lastOp'.op = "insertVersions" =>
    LET id == lastOp'.id
        list == lastOp'.arg
        strings == {list[n] : n \in 1..Len(list)}
    IN /\ list = <<>> => db' = db
       /\ (\E p \in db.packages : p.id = id) =>
            /\ VersionsOf(db', id) =
                 VersionsOf(db, id)
                   \cup {[package_id |-> id, number |-> str] : str \in strings}
            /\ Cardinality(VersionsOf(db', id) \ VersionsOf(db, id))
                 <= Cardinality(strings)
            /\ insertVersions(db', id, list).db = db'
            /\ insertVersions(db, id, Distinct(list)).db = db'
       /\ (~ \E p \in db.packages : p.id = id) => db' = db
       /\ db'.versions \ VersionsOf(db', id) = db.versions \ VersionsOf(db, id)
       /\ db'.packages = db.packages
       /\ db'.advisories = db.advisories
       /\ db'.repo_metadata = db.repo_metadata

\* C20: after insertVersions(packageId, list) for a package of the store, the
\* version rows of the package are the prior rows plus one row per distinct
\* string of the list; the same call applied again changes nothing, a list
\* with repeated strings gives the store that the list of its distinct
\* strings gives, an empty list leaves the store unchanged, and no row of
\* another package or table changes.  (A call for an id that has no package
\* row fails on the foreign key and writes nothing.)
C20_VersionsIdempotent == [][C20_Step]_vars

\* a list with a repeated string was written for a package that had one of
\* its strings already: two rows
C20_Witness ==
  /\ calls = 3
  /\ lastOp.op = "insertVersions"
  /\ lastOp.arg = <<"1.0.0", "2.0.0", "1.0.0">>
  /\ Cardinality(VersionsOf(db, lastOp.id)) = 2
  /\ Cardinality(db.packages) = 1

\* ---- a build without version enrichment ----
C21_Inv ==
  ~fetchVersionsData =>
    /\ lookups = <<>> /\ task = <<>> /\ results = <<>>
    /\ ~EnrichmentStarted
    /\ pc # "idle" => db.versions = {}
    /\ pc = "done" =>
          \A b \in db.build_info :
            /\ b.version_count = 0
            /\ b.package_count = Cardinality(db.packages)
            /\ b.advisory_count = Cardinality(db.advisories)
    /\ pc = "done" => db.build_info # {}

C21_Step ==
  (~fetchVersionsData /\ pc = "inserted") => pc' = "done" /\ error' = "none"

\* C21: with fetchVersionsData false no version lookup is issued and no
\* version row is written; after the bulk transaction the only step of build
\* is the one that completes it, and the build_info row it writes has
\* version_count 0 and the package and advisory counts of the store.
C21_SkipVersions == [](C21_Inv) /\ [][C21_Step]_vars

\* a build without enrichment completed with two packages and an advisory
C21_Witness ==
  /\ ~fetchVersionsData
  /\ pc = "done"
  /\ exitCode = 0
  /\ Cardinality(db.packages) = 2
  /\ db.advisories # {}
  /\ \E k \in 1..Len(packages) : IssuesLookup(packages[k])

\* ---- the progress messages ----
\* `Fetching page j...` for the requests 1..n
PageReports(n) == [j \in 1..n |-> [msg |-> "Fetching page", n |-> j]]

\* the number of batches of a catalog of `total` records
Batches(total) == (total + CONCURRENCY - 1) \div CONCURRENCY

\* `Fetched versions for c/total packages` at the end of batches 1..n
BatchReports(n, total) ==
  [b \in 1..n |->
     [msg |-> "Fetched versions for", n |-> Min(b * CONCURRENCY, total)]]

\* the messages of a full build that completes, in the order of the code
FullBuildProgress ==
  LET total == Len(CatalogOf(source)) IN
    <<[msg |-> "Creating database...", n |-> 0],
      [msg |-> "Fetching critical packages...", n |-> 0]>>
    \o PageReports(LeadingPages(source) + 1)
    \o <<[msg |-> "Found critical packages", n |-> total],
         [msg |-> "Inserting packages...", n |-> 0],
         [msg |-> "Fetching versions...", n |-> 0]>>
    \o BatchReports(Batches(total), total)
    \o <<[msg |-> "Build complete", n |-> Cardinality(db.packages)]>>

\* C22: the messages of a full build are, at every moment, an initial part of
\* this sequence, and all of it when the build has completed: schema
\* creation, the start of pagination, one message at the start of each page
\* fetch in page order, the package count, the message before the bulk
\* insert, the message after it (start of enrichment), one message at the
\* completion of each batch in batch order, the final summary.
C22_ProgressOrder ==
  fetchVersionsData =>
    /\ Len(progress) <= Len(FullBuildProgress)
    /\ \A j \in 1..Len(progress) :
          j < Len(FullBuildProgress) => progress[j] = FullBuildProgress[j]
    /\ pc = "done" => progress = FullBuildProgress

\* a full build completed after two page requests and two batches
C22_Witness ==
  /\ fetchVersionsData
  /\ pc = "done"
  /\ Len(PageRequests) = 2
  /\ Batches(Len(packages)) = 2
  /\ Len(progress) = 10

\* ---- the phases of build ----
\* the positions build can go to from a position
PhaseSuccessors(p) ==
  CASE p = "idle"      -> {"unlinked"}
    [] p = "unlinked"  -> {"created", "failed"}
    [] p = "created"   -> {"awaitPage"}
    [] p = "awaitPage" -> {"pageSleep", "paginated", "failed"}
    [] p = "pageSleep" -> {"awaitPage"}
    [] p = "paginated" -> {"inserted", "failed"}
    [] p = "inserted"  -> {"loop", "done"}
    [] p = "loop"      -> {"batch", "done"}
    [] p = "batch"     -> {"loop", "failed"}
    [] OTHER           -> {}

\* some version lookup is issued in the step
LookupIssued ==
  \E k \in DOMAIN lookups' :
    lookups'[k] > (IF k \in DOMAIN lookups THEN lookups[k] ELSE 0)

C23_Order ==
  /\ pc' # pc => pc' \in PhaseSuccessors(pc)
  /\ (pc = "unlinked" /\ pc' = "created") => db = NoStore /\ db' = EmptyStore
  /\ db'.packages \ db.packages # {} =>
        /\ pc = "paginated" /\ pc' = "inserted"
        /\ PaginationReturned
        /\ packages = CatalogOf(source)
  /\ (pc = "paginated" /\ pc' = "inserted") =>
        /\ insertAll(db, packages).ok
        /\ db' = insertAll(db, packages).db
  /\ LookupIssued => pc = "loop" /\ pc' = "batch"
  /\ db'.versions \ db.versions # {} => pc = "batch" /\ AllSettled
  /\ db'.build_info \ db.build_info # {} =>
        /\ pc' = "done"
        /\ IF fetchVersionsData
             THEN /\ pc = "loop"
                  /\ i >= Len(packages)
                  /\ Committed >= Batches(Len(packages))
                  /\ \A k \in DOMAIN task : task[k] = "done"
             ELSE pc = "inserted"

\* the schema is created against the file the unlinks left
C23_SchemaStep ==
  (pc = "unlinked" /\ db.schema) =>
     pc' = "failed" /\ error' = "SQLITE_ERROR" /\ db' = db

\* createDatabase finds no file at dbPath
C23_ArtifactRemoved == pc = "unlinked" => db = NoStore

\* C23 as claimed: build runs its phases in one fixed order without overlap,
\* and the old artifact is always gone when the schema is created, so that
\* createDatabase always runs against an empty store.
C23_PhasesOnRemovedArtifact == [](C23_ArtifactRemoved) /\ [][C23_Order]_vars

\* C23 as amended: build goes through its positions in one fixed order
\* (unlink, schema, pagination, bulk transaction, batches, build_info), each
\* once; the schema is created only on an absent file, and when the old
\* artifact is still there (the rejection of unlink is swallowed)
\* createDatabase throws and build rejects with the file as it was; a package
\* row is written only by the bulk transaction, after pagination has returned
\* the whole catalog; a version lookup is issued only after the bulk
\* transaction has committed; a version row is written only when every task
\* of the batch has resolved; build_info is written only by the step that
\* completes the build, after the version transaction of the last batch.
C23_PhasesInOrder == [][C23_Order /\ C23_SchemaStep]_vars

\* a full build that completed after more than one page, with version rows
C23_Witness ==
  /\ pc = "done"
  /\ fetchVersionsData
  /\ page > 1
  /\ db.versions # {}
  /\ db.build_info # {}
  /\ \E j \in 1..Len(progress) : progress[j].msg = "Fetched versions for"

\* ---- the progress of the enrichment ----
\* the messages `Fetched versions for c/total packages`, in order
BatchReportsMade ==
  SelectSeq(progress, LAMBDA e : e.msg = "Fetched versions for")

C24_Inv ==
  LET reports == BatchReportsMade
      total == Len(packages)
  IN /\ Len(reports) = Committed
     /\ \A b \in 1..Len(reports) :
           /\ reports[b].n = Min(b * CONCURRENCY, total)
           /\ reports[b].n <= total
           /\ b > 1 => reports[b - 1].n < reports[b].n
           /\ \A k \in DOMAIN task :
                 BatchOf(k) < b =>
                   /\ task[k] = "done"
                   /\ RowsOf(k) \subseteq db.versions
     /\ completed = (IF reports = <<>> THEN 0 ELSE Last(reports).n)
     /\ (pc = "done" /\ fetchVersionsData) =>
           /\ Len(reports) = Batches(total)
           /\ total > 0 => Last(reports).n = total

C24_Step ==
  BatchReportsMade' # BatchReportsMade =>
    /\ pc = "batch" /\ pc' = "loop"
    /\ AllSettled
    /\ i' = i + CONCURRENCY
    /\ Len(BatchReportsMade') = Len(BatchReportsMade) + 1
    /\ \A k \in Slice(i) : RowsOf(k) \subseteq db'.versions

\* C24: the number of batch reports is at every moment the number of batches
\* whose version transaction has committed; a report is made in the step
\* that commits its batch, when every task of the batch has resolved, and the
\* version rows of the batch are then in the store; the b-th report carries
\* min(b * CONCURRENCY, total), so the counts strictly increase, never exceed
\* the number of packages, and the report of the last batch carries the
\* total.
C24_ProgressPerBatch == [](C24_Inv) /\ [][C24_Step]_vars

\* the last batch is shorter than CONCURRENCY and has been reported
C24_Witness ==
  /\ Len(BatchReportsMade) = 2
  /\ Len(packages) % CONCURRENCY # 0
  /\ Last(BatchReportsMade).n = Len(packages)
  /\ pc = "loop"

\* ---- requests are made once ----
\* the outcomes of page requests logged so far
PageOutcomes ==
  SelectSeq(fetchLog, LAMBDA e : e.ev \in {"PAGE", "EMPTY", "ERROR"})

C25_Inv ==
  /\ \A j, m \in 1..Len(PageRequests) :
        j # m => PageRequests[j].page # PageRequests[m].page
  /\ Len(PageOutcomes) <= Len(PageRequests)
  /\ Len(PageRequests) <= Len(PageOutcomes) + 1
  /\ \A j \in 1..Len(fetchLog) :
        fetchLog[j].ev \in {"EMPTY", "ERROR"} => j = Len(fetchLog)
  /\ \A k \in DOMAIN lookups :
        /\ lookups[k] <= 1
        /\ task[k] = "fetching" => lookups[k] = 1
        /\ k \in lookupFailed =>
              lookups[k] = 1 /\ task[k] \in {"sleeping", "done"}
        /\ (task[k] # "idle" /\ IssuesLookup(packages[k])) => lookups[k] = 1
        /\ ~IssuesLookup(packages[k]) => lookups[k] = 0

C25_Step ==
  \A k \in DOMAIN task :
    k \in DOMAIN task' =>
      /\ (task'[k] = "fetching" /\ task[k] # "fetching") =>
            task[k] = "idle" /\ lookups[k] = 0
      /\ lookups'[k] # lookups[k] =>
            task[k] = "idle" /\ task'[k] = "fetching"

\* C25: every page request has one outcome at most and is followed by no
\* other request before it; no two page requests of a build carry the same
\* page number, and no request follows an empty page or a failed request; for
\* every record of the catalog at most one version request is issued, when
\* its task starts, a task never goes back to awaiting a lookup, and a lookup
\* that failed was issued once and has let its task go on.
C25_NoRetry == [](C25_Inv) /\ [][C25_Step]_vars

\* build completed after two page requests; one lookup failed, another one
\* succeeded, each issued once
C25_Witness ==
  /\ pc = "done"
  /\ Len(PageRequests) >= 2
  /\ \E k, m \in DOMAIN task :
        /\ k \in lookupFailed /\ lookups[k] = 1
        /\ m \notin lookupFailed /\ lookups[m] = 1 /\ results[m] # <<>>

\* ---- build_info marks a completed build ----
\* pagination, the bulk transaction and every batch of this build completed
BuildPhasesCompleted ==
  /\ PaginationReturned
  /\ packages = CatalogOf(source)
  /\ \E j \in 1..Len(progress) : progress[j].msg = "Inserting packages..."
  /\ error = "none"
  /\ fetchVersionsData =>
        /\ EnrichmentStarted
        /\ i >= Len(packages)
        /\ \A k \in DOMAIN task : task[k] = "done"
        /\ Len(BatchReportsMade) = Batches(Len(packages))

\* createDatabase is about to run, or has thrown, on the artifact the unlinks
\* left in place
ArtifactRemained ==
  /\ db = PreviousStore
  /\ \/ pc = "unlinked"
     \/ pc = "failed" /\ error = "SQLITE_ERROR"
  /\ fetchLog = <<>> /\ packages = <<>>

\* C26 as claimed: in every state of a build after its unlinks a build_info
\* row is in the store only if pagination, the bulk transaction and every
\* batch of that build have completed, and a build that has rejected leaves
\* no build_info row.
C26_BuildInfoOnlyAfterSuccess ==
  /\ (pc # "idle" /\ db.build_info # {}) => pc = "done" /\ BuildPhasesCompleted
  /\ pc = "failed" => db.build_info = {}

\* C26 as amended: in every state of a build after its unlinks a build_info
\* row is in the store only if pagination, the bulk transaction and every
\* batch of that build have completed, or if the old artifact could not be
\* removed and the store is still that artifact, untouched, with the row of
\* the build that made it; a build that has rejected after the schema was
\* created leaves no build_info row, and one that has rejected in the
\* creation of the schema leaves the previous artifact as it was.
C26_BuildInfoOfCompletedBuild ==
  /\ (pc # "idle" /\ db.build_info # {}) =>
        \/ pc = "done" /\ BuildPhasesCompleted
        \/ ArtifactRemained
  /\ (pc = "failed" /\ error # "SQLITE_ERROR") => db.build_info = {}
  /\ (pc = "failed" /\ error = "SQLITE_ERROR") => ArtifactRemained

\* a build rejected in its second batch, after version rows of the first
\* were committed: the store has rows and no build_info row
C26_Witness ==
  /\ pc = "failed"
  /\ VersionsFailed
  /\ db.versions # {}
  /\ db.packages # {}
  /\ db.build_info = {}
  /\ exitCode = 1

\* ---- references to packages ----
\* the ids of the package rows
PackageIds(d) == {r.id : r \in d.packages}

\* every versions, advisories and repo_metadata row has its package row
ReferencesResolve(d) ==
  /\ \A v \in d.versions : v.package_id \in PackageIds(d)
  /\ \A a \in d.advisories : a.package_id \in PackageIds(d)
  /\ \A m \in d.repo_metadata : m.package_id \in PackageIds(d)

\* C27: when build has completed, whatever the catalog (two records sharing
\* an id or an (ecosystem, name) included), every version, advisory and
\* repo_metadata row carries the id of a row of packages.
C27_ChildRowsHaveParent == pc = "done" => ReferencesResolve(db)

\* build completed on a catalog with two records of one (ecosystem, name)
\* and different ids, and the store has child rows
C27_Witness ==
  /\ pc = "done"
  /\ exitCode = 0
  /\ \E j, k \in 1..Len(packages) :
        /\ packages[j].id # packages[k].id
        /\ packages[j].ecosystem = packages[k].ecosystem
        /\ packages[j].name = packages[k].name
  /\ db.versions # {}
  /\ db.advisories # {} \/ db.repo_metadata # {}

\* ---- termination ----
\* the source never serves an empty page
NeverEmpty ==
  endless /\ source # <<>> /\ LeadingPages(source) = Len(source)

\* build has resolved with build_info written, or has rejected
Terminated ==
  \/ pc = "done" /\ db.build_info # {}
  \/ pc = "failed" /\ error # "none"

\* fetchAllCriticalPackages is in its loop
Paginating == pc \in {"awaitPage", "pageSleep"}

C28_Inv ==
  /\ pc \in {"paginated", "inserted", "loop", "batch", "done"} =>
        PaginationReturned /\ PageOf(source, page) = <<>>
  /\ NeverEmpty =>
        /\ pc \notin {"paginated", "inserted", "loop", "batch", "done"}
        /\ pc = "failed" =>
              \/ error = "SQLITE_ERROR"
              \/ error = "HTTP" /\ Last(fetchLog).ev = "ERROR"
        /\ pc # "idle" => (db.packages = {} \/ ArtifactRemained)

C28_Step ==
  (Paginating /\ ~Paginating') =>
     \/ /\ pc' = "paginated"
        /\ PageOf(source, page) = <<>>
        /\ Last(fetchLog').ev = "EMPTY"
     \/ /\ pc' = "failed"
        /\ Last(fetchLog').ev = "ERROR"

\* C28: when pending responses and timers are never postponed for ever and
\* the source serves an empty page after finitely many pages, build
\* eventually resolves with build_info written or rejects; the loop of
\* fetchAllCriticalPackages is left only on an empty page or on a failed
\* request, so against a source that never serves an empty page build never
\* gets past pagination: it goes on requesting pages until a request fails.
\* (The source does not change during a build, so `NeverEmpty \/ <>Terminated`
\* says that every build against a source that is not NeverEmpty terminates.)
C28_Terminates ==
  /\ NeverEmpty \/ <>Terminated
  /\ [][C28_Step /\ C28_Inv']_vars

\* against a source that never serves an empty page, pagination has gone past
\* the pages the source holds and is still collecting
C28_Witness ==
  /\ NeverEmpty
  /\ Paginating
  /\ page > Len(source) + 1
  /\ Len(packages) > Len(CatalogOf(source))

====
